---- MODULE Spec2Model ----
(***************************************************************************)
(* Tiled's document/view core: DocumentManager (documentmanager.cpp) and   *)
(* CreateObjectTool (createobjecttool.cpp).                                *)
(*                                                                         *)
(* The program is single threaded and event driven: every action below is  *)
(* one event handler run to completion, nested signal/slot calls included. *)
(* A handler is written as an operator from a state record s to a state    *)
(* record, so that a call in the code is an application in the model.      *)
(* Indices are 0-based as in the code (-1 = none); At(seq, i) reads them.  *)
(* Pointers are small positive integers (0 = null): a document, its undo   *)
(* stack, and the container/view/scene created for it share one number.    *)
(* An object lives from its construction to its delete; using a pointer to *)
(* an object that is not alive is recorded in fault.                       *)
(***************************************************************************)
EXTENDS Integers, Sequences, FiniteSets, TLC

VARIABLES
    documents,           \* the MapDocument objects alive: pointer -> fields
    views,               \* the MapViewContainer/MapView/MapScene objects alive
    mDocuments,          \* QList<MapDocument*>: the documents, in order
    mTabWidget,          \* [tabs: containers in tab order, currentIndex]
    mUndoGroup,          \* [stacks: set of stack ids, active: id or 0]
    mSelectedTool,       \* DocumentManager::mSelectedTool
    mSceneWithTool,      \* DocumentManager::mSceneWithTool (scene id or 0)
    mFileSystemWatcher,  \* path -> number of subscriptions
    disk,                \* file -> modification time (0: does not exist)
    createTool,          \* the CreateObjectTool's fields
    log,                 \* notifications emitted by the last handler
    reload,              \* [index, result] of the last reloadDocumentAt
    fault,               \* "" or the contract violation the handler hit
    event,               \* the event the last handler was run for: its name,
                         \* file, tab index (for a tool event: the document
                         \* of the session it met, 0 when idle) and key
    pressed,             \* the counts seen by the press that began a session
    pointer,             \* what the last mouse handler was given and computed
    pc                   \* where the program is: "events" (in the event loop,
                         \* between two handlers), "closeAllDocuments" (at
                         \* the test of its loop), "closeCurrentDocument"
                         \* (in the loop, at the call), "closed"
                         \* (closeAllDocuments has returned) or "deleted"
                         \* (the manager is gone)

vars == <<documents, views, mDocuments, mTabWidget, mUndoGroup, mSelectedTool, mSceneWithTool,
          mFileSystemWatcher, disk, createTool, log, reload, fault, event,
          pressed, pointer, pc>>

----------------------------------------------------------------------------
(* Bounds of the model *)

MaxOpen == 2          \* documents open at once (Spec, SpecTool)
MaxTabs == 3          \* documents open at once (SpecTabs)
MaxTime == 2          \* distinct file modification times
MaxUndo == 1          \* commands pushed on one undo stack
MaxLayers == 2        \* layers of a loaded map
MaxCoord == 14        \* pointer positions reach MaxCoord steps from the origin
MaxGridFine == 4      \* fine-grid subdivisions of a tile

----------------------------------------------------------------------------
(* The file system *)

Files == {"a", "b"}                  \* files that may exist on disk
FileNames == {"a", "b", "la"}        \* names a document may carry; "la" links to "a"
Times == 1..MaxTime

\* The file a name resolves to.
Target(fileName) == IF fileName = "la" THEN "a" ELSE fileName

Exists(d, fileName) == fileName # "" /\ d[Target(fileName)] # 0

\* QFileInfo(fileName).canonicalFilePath(): empty when the file does not exist
canonicalFilePath(d, fileName) ==
    IF Exists(d, fileName) THEN Target(fileName) ELSE ""

\* QFileInfo(fileName).lastModified()
lastModified(d, fileName) ==
    IF fileName = "" THEN 0 ELSE d[Target(fileName)]

----------------------------------------------------------------------------
(* Sequences with the code's 0-based indices *)

At(seq, i) == seq[i + 1]

RemoveAt(seq, i) == SubSeq(seq, 1, i) \o SubSeq(seq, i + 2, Len(seq))

InsertAt(seq, i, x) == SubSeq(seq, 1, i) \o <<x>> \o SubSeq(seq, i + 1, Len(seq))

\* QList::move(from, to)
Move(seq, from, to) == InsertAt(RemoveAt(seq, from), to, At(seq, from))

ValidIndex(seq, i) == i >= 0 /\ i < Len(seq)

Min(S) == CHOOSE x \in S : \A y \in S : x <= y

\* QList::indexOf, QTabWidget::indexOf
indexOf(seq, x) ==
    IF \E i \in 1..Len(seq) : seq[i] = x
    THEN Min({i \in 1..Len(seq) : seq[i] = x}) - 1
    ELSE -1

Range(seq) == {seq[i] : i \in 1..Len(seq)}

\* f with x mapped to v (x new or not), and f without x
With(f, x, v) == [y \in DOMAIN f \cup {x} |-> IF y = x THEN v ELSE f[y]]
Without(f, x) == [y \in DOMAIN f \ {x} |-> f[y]]

----------------------------------------------------------------------------
(* Coordinates.  A qreal is kept exactly, as a whole number of 1/Unit; a    *)
(* QPointF is a pair of them, a QPoint a pair of integers.  Unit is a       *)
(* multiple of every subdivision and of its double, so that the quotient by *)
(* a subdivision is exact and a product can lie halfway between integers.   *)
(* (A double is off the exact value by a relative 2^-52 per operation, far  *)
(* less than the half unit that decides a rounding of an int-sized value.)  *)

Unit == 120
Step == 5                            \* pointer positions are Step/Unit apart
GridFines == 1..MaxGridFine          \* Preferences::gridFine()

\* int(d): the conversion of a qreal to int drops the fraction
int(d) == IF d >= 0 THEN d \div Unit ELSE -((-d) \div Unit)

\* qRound(d) == d >= 0.0 ? int(d + 0.5) : int(d - int(d-1) + 0.5) + int(d-1)
qRound(d) ==
    IF d >= 0 THEN int(d + Unit \div 2)
    ELSE int(d - int(d - Unit) * Unit + Unit \div 2) + int(d - Unit)

\* QPointF::toPoint()
toPoint(p) == <<qRound(p[1]), qRound(p[2])>>

\* QPointF(const QPoint &)
QPointF(point) == <<point[1] * Unit, point[2] * Unit>>

\* operator*(const QPointF &, qreal) and QPointF::operator/=(qreal)
Scaled(p, factor) == <<p[1] * factor, p[2] * factor>>
Divided(p, divisor) == <<p[1] \div divisor, p[2] \div divisor>>

\* The positions the renderer may convert a press to, in tiles
Points == {<<i * Step, -i * Step>> : i \in (-MaxCoord)..MaxCoord}

\* MapRenderer::tileToPixelCoords of an orthogonal map
tileWidth == 32
tileHeight == 16
tileToPixelCoords(p) == <<p[1] * tileWidth, p[2] * tileHeight>>

----------------------------------------------------------------------------
(* The state record the handlers work on *)

\* pointer when the handler was no mouse handler
NoEvent ==
    [button |-> "", control |-> FALSE, snapToGrid |-> FALSE,
     snapToFineGrid |-> FALSE, gridFine |-> 1, tileCoords |-> <<0, 0>>,
     objectGroup |-> FALSE, created |-> FALSE]
NoPointer ==
    [handler |-> "", e |-> NoEvent, snapToGrid |-> FALSE,
     snapToFineGrid |-> FALSE, hook |-> "", tileCoords |-> <<>>,
     position |-> <<>>]

Here ==
    [documents |-> documents, views |-> views,
     mDocuments |-> mDocuments, tabs |-> mTabWidget.tabs,
     currentIndex |-> mTabWidget.currentIndex,
     mUndoGroup |-> mUndoGroup, mSelectedTool |-> mSelectedTool,
     mSceneWithTool |-> mSceneWithTool, watch |-> mFileSystemWatcher,
     disk |-> disk, tool |-> createTool, log |-> <<>>,
     reload |-> [index |-> -1, result |-> "none"], fault |-> fault,
     pointer |-> NoPointer]

Becomes(s) ==
    /\ documents' = s.documents
    /\ views' = s.views
    /\ mDocuments' = s.mDocuments
    /\ mTabWidget' = [tabs |-> s.tabs, currentIndex |-> s.currentIndex]
    /\ mUndoGroup' = s.mUndoGroup
    /\ mSelectedTool' = s.mSelectedTool
    /\ mSceneWithTool' = s.mSceneWithTool
    /\ mFileSystemWatcher' = s.watch
    /\ disk' = s.disk
    /\ createTool' = s.tool
    /\ log' = s.log
    /\ reload' = s.reload
    /\ fault' = s.fault
    /\ pointer' = s.pointer

Fault(s, what) == [s EXCEPT !.fault = IF @ = "" THEN what ELSE @]

\* Sequencing: Do(x, LAMBDA y : e) is e with y bound to the value x, as a
\* statement's result is bound before the next statement runs.
Do(x, Rest(_)) == Rest(x)

\* The canonical path of each registered document, in order ("?" for a
\* registered pointer to a deleted document).
Paths(s) ==
    [i \in 1..Len(s.mDocuments) |->
        IF s.mDocuments[i] \in DOMAIN s.documents
        THEN canonicalFilePath(s.disk, s.documents[s.mDocuments[i]].fileName)
        ELSE "?"]

\* What a slot connected to a signal can see of the manager when it runs.
Observation(s, ev, id, file) ==
    [ev |-> ev, id |-> id, file |-> file,
     docs |-> s.mDocuments, paths |-> Paths(s), tabs |-> s.tabs,
     currentIndex |-> s.currentIndex,
     session |-> s.tool.mNewMapObjectItem # 0,
     enabled |-> {v \in DOMAIN s.views : s.views[v].activeTool # "none"},
     objects |-> [d \in DOMAIN s.documents |-> s.documents[d].objects],
     undo |-> [d \in DOMAIN s.documents |-> s.documents[d].undoCount]]

Emit(s, ev, id, file) ==
    [s EXCEPT !.log = Append(@, Observation(s, ev, id, file))]

----------------------------------------------------------------------------
(* CreateObjectTool (createobjecttool.cpp).  The tile tool and the geometry *)
(* tool are two instances; only the active instance can hold a session, so *)
(* one record holds the session and mode names the instance.               *)

CreateTools == {"CreateTile", "CreateGeometry"}
Tools == {"none", "select"} \cup CreateTools

\* AbstractObjectTool::mapDocument(): the document of the scene the tool is on
toolMapDocument(s) == s.tool.mMapScene

\* QUndoStack::push(new AddMapObject(doc, group, object)): push runs the
\* command's redo(), which adds the object to the group; the scene shows it.
pushAddMapObject(s, doc, objectGroup) ==
    IF doc \notin DOMAIN s.documents \/ objectGroup \notin DOMAIN s.documents
       \/ objectGroup \notin DOMAIN s.views
    THEN Fault(s, "push on a deleted document")
    ELSE Do([s EXCEPT !.documents[doc].undoCount = @ + 1,
                      !.documents[doc].modified = TRUE], LAMBDA s1 :
         [s1 EXCEPT !.documents[objectGroup].objects = @ + 1,
                    !.views[objectGroup].items = @ + 1,
                    !.tool.detached = @ - 1])

\* A faulty clearNewMapObjectItem, which leaves the overlay's item
clearLeavingOverlay(s) ==
    IF s.tool.mNewMapObjectItem = 0
    THEN Fault(s, "Q_ASSERT(mNewMapObjectItem)")
    ELSE [s EXCEPT
            !.documents[s.tool.mNewMapObjectItem].objects = @ - 1,
            !.views[s.tool.mNewMapObjectItem].items = @ - 1,
            !.tool.mNewMapObjectItem = 0,
            !.tool.detached = @ + 1]

clearNewMapObjectItem(s) ==
    IF s.tool.mNewMapObjectItem = 0
    THEN Fault(s, "Q_ASSERT(mNewMapObjectItem)")
    ELSE LET g == s.tool.mNewMapObjectItem
         IN IF g \notin DOMAIN s.documents \/ g \notin DOMAIN s.views
            THEN Fault([s EXCEPT !.tool.mNewMapObjectItem = 0,
                                 !.tool.mOverlayPolygonItem = FALSE],
                       "session object of a deleted document")
            ELSE [s EXCEPT
                    \* objectGroup->removeObject(newMapObject)
                    !.documents[g].objects = @ - 1,
                    \* delete mNewMapObjectItem; delete mOverlayPolygonItem
                    !.views[g].items =
                        @ - 1 - (IF s.tool.mOverlayPolygonItem THEN 1 ELSE 0),
                    !.tool.mNewMapObjectItem = 0,
                    !.tool.mOverlayPolygonItem = FALSE,
                    !.tool.detached = @ + 1]

\* A faulty cancel, which forgets the session but leaves the object in its
\* group and its item on the scene
cancelLeavingObject(s) ==
    [s EXCEPT !.tool.mNewMapObjectItem = 0, !.tool.mOverlayPolygonItem = FALSE]

cancelNewMapObject(s) ==
    Do(clearNewMapObjectItem(s), LAMBDA s1 :
    \* delete newMapObject
    IF s1.tool.detached > 0
    THEN [s1 EXCEPT !.tool.detached = @ - 1]
    ELSE s1)

finishNewMapObject(s) ==
    IF s.tool.mNewMapObjectItem = 0
    THEN Fault(s, "Q_ASSERT(mNewMapObjectItem)")
    ELSE Do(clearNewMapObjectItem(s), LAMBDA s1 :
         IF s1.fault # "" THEN s1
         ELSE pushAddMapObject(s1, toolMapDocument(s1),
                               s.tool.mNewMapObjectItem))

\* AbstractObjectTool::deactivate(scene): the tool lets go of the scene
AbstractObjectTool_deactivate(s, scene) == [s EXCEPT !.tool.mMapScene = 0]

\* AbstractObjectTool::activate(scene)
AbstractObjectTool_activate(s, scene) == [s EXCEPT !.tool.mMapScene = scene]

\* A faulty deactivate, which lets go of the scene with the session open
deactivateKeepingSession(s, scene) == AbstractObjectTool_deactivate(s, scene)

deactivate(s, scene) ==
    AbstractObjectTool_deactivate(
        IF s.tool.mNewMapObjectItem # 0 THEN cancelNewMapObject(s) ELSE s,
        scene)

\* A faulty keyPressed, which commits the session on Escape as well
keyPressedCommittingOnEscape(s, key) ==
    IF key \in {"Enter", "Return", "Escape"} /\ s.tool.mNewMapObjectItem # 0
    THEN finishNewMapObject(s) ELSE s

\* key is "Enter", "Return", "Escape" or "Other"; AbstractObjectTool::keyPressed
\* ignores the event
keyPressed(s, key) ==
    CASE key \in {"Enter", "Return"} /\ s.tool.mNewMapObjectItem # 0 ->
             finishNewMapObject(s)
      [] key = "Escape" /\ s.tool.mNewMapObjectItem # 0 ->
             cancelNewMapObject(s)
      [] OTHER -> s

\* The hooks of the base class do nothing ("optional override"); pointer
\* keeps the flags a hook was called with.
mouseMovedWhileCreatingObject(s, snapToGrid, snapToFineGrid) ==
    [s EXCEPT !.pointer.hook = "mouseMovedWhileCreatingObject",
              !.pointer.snapToGrid = snapToGrid,
              !.pointer.snapToFineGrid = snapToFineGrid]
mousePressedWhileCreatingObject(s, snapToGrid, snapToFineGrid) ==
    [s EXCEPT !.pointer.hook = "mousePressedWhileCreatingObject",
              !.pointer.snapToGrid = snapToGrid,
              !.pointer.snapToFineGrid = snapToFineGrid]
mouseReleasedWhileCreatingObject(s, snapToGrid, snapToFineGrid) ==
    [s EXCEPT !.pointer.hook = "mouseReleasedWhileCreatingObject",
              !.pointer.snapToGrid = snapToGrid,
              !.pointer.snapToFineGrid = snapToFineGrid]

(* A mouse event e carries what the handler reads while it runs: the       *)
(* button, whether Control is held, Preferences' snapToGrid, snapToFineGrid *)
(* and gridFine, the tile coordinates the renderer converts the position   *)
(* to, whether currentObjectGroup() is a visible object group, and whether *)
(* createNewMapObject() returns an object.                                 *)

mouseMoved(s, e) ==
    Do([s EXCEPT !.pointer = [NoPointer EXCEPT !.handler = "mouseMoved",
                                               !.e = e]], LAMBDA s1 :
    IF s1.tool.mNewMapObjectItem # 0
    THEN LET snapToGrid == IF e.control THEN ~e.snapToGrid ELSE e.snapToGrid
             snapToFineGrid == IF e.control THEN FALSE ELSE e.snapToFineGrid
         IN  mouseMovedWhileCreatingObject(s1, snapToGrid, snapToFineGrid)
    ELSE s1)

\* A faulty mouseReleased, whose modifier inverts the fine grid as well
mouseReleasedInvertingFine(s, e) ==
    Do([s EXCEPT !.pointer =
           [NoPointer EXCEPT
              !.handler = "mouseReleased", !.e = e,
              !.snapToGrid = IF e.control THEN ~e.snapToGrid ELSE e.snapToGrid,
              !.snapToFineGrid = IF e.control THEN ~e.snapToFineGrid
                                 ELSE e.snapToFineGrid]], LAMBDA s1 :
    IF s1.tool.mNewMapObjectItem # 0
    THEN mouseReleasedWhileCreatingObject(s1, s1.pointer.snapToGrid,
                                          s1.pointer.snapToFineGrid)
    ELSE s1)

mouseReleased(s, e) ==
    LET snapToGrid == IF e.control THEN ~e.snapToGrid ELSE e.snapToGrid
        snapToFineGrid == IF e.control THEN FALSE ELSE e.snapToFineGrid
    IN  Do([s EXCEPT !.pointer = [NoPointer EXCEPT !.handler = "mouseReleased",
                                                   !.e = e,
                                                   !.snapToGrid = snapToGrid,
                                                   !.snapToFineGrid = snapToFineGrid]],
           LAMBDA s1 :
        IF s1.tool.mNewMapObjectItem # 0
        THEN mouseReleasedWhileCreatingObject(s1, snapToGrid, snapToFineGrid)
        ELSE s1)

\* A faulty startNewMapObject, which goes on without an object
startNewMapObjectUnchecked(s, pos, created) ==
    [s EXCEPT !.pointer.position = pos,
              !.documents[toolMapDocument(s)].objects = @ + 1,
              !.tool.mNewMapObjectItem = toolMapDocument(s),
              !.views[toolMapDocument(s)].items = @ + 1]

\* pos: the position of the new object; created: whether
\* createNewMapObject() returned an object
startNewMapObject(s, pos, created) ==
    IF s.tool.mNewMapObjectItem # 0
    THEN Fault(s, "Q_ASSERT(!mNewMapObjectItem)")
    ELSE IF ~created THEN s
    ELSE LET g == toolMapDocument(s)
         IN  IF g \notin DOMAIN s.documents \/ g \notin DOMAIN s.views
             THEN Fault(s, "tool without a scene")
             ELSE [s EXCEPT
                     \* newMapObject->setPosition(pos)
                     !.pointer.position = pos,
                     \* objectGroup->addObject(newMapObject)
                     !.documents[g].objects = @ + 1,
                     \* mapScene()->addItem(mNewMapObjectItem)
                     !.tool.mNewMapObjectItem = g,
                     !.views[g].items = @ + 1]

\* A multi-point subclass also shows an overlay item when it starts a session.
startOverlay(s) ==
    IF s.tool.mNewMapObjectItem = 0 \/ s.tool.mMapScene \notin DOMAIN s.views
    THEN s
    ELSE [s EXCEPT !.tool.mOverlayPolygonItem = TRUE,
                   !.views[s.tool.mMapScene].items = @ + 1]

\* A faulty snap, which does not divide the rounded product back
snapWithoutDividing(tileCoords, snapToGrid, snapToFineGrid, gridFine) ==
    IF snapToFineGrid THEN QPointF(toPoint(Scaled(tileCoords, gridFine)))
    ELSE IF snapToGrid THEN QPointF(toPoint(tileCoords))
    ELSE tileCoords

\* A faulty snap, in which the coarse grid takes precedence
snapCoarseFirst(tileCoords, snapToGrid, snapToFineGrid, gridFine) ==
    IF snapToGrid THEN QPointF(toPoint(tileCoords))
    ELSE IF snapToFineGrid
         THEN Divided(QPointF(toPoint(Scaled(tileCoords, gridFine))), gridFine)
         ELSE tileCoords

\* The snapping of mousePressed (lines 151 to 156)
snapTileCoords(tileCoords, snapToGrid, snapToFineGrid, gridFine) ==
    IF snapToFineGrid
    THEN Divided(QPointF(toPoint(Scaled(tileCoords, gridFine))), gridFine)
    ELSE IF snapToGrid THEN QPointF(toPoint(tileCoords))
    ELSE tileCoords

\* A faulty mousePressed, which starts a new object whether or not a
\* session is open
mousePressedStartingAgain(s, mode, e) ==
    IF e.button # "LeftButton" \/ ~e.objectGroup
       \/ (mode = "CreateTile" /\ ~s.tool.mTile)
    THEN s
    ELSE startNewMapObject(s, tileToPixelCoords(e.tileCoords), e.created)

\* mode: the instance's mMode
mousePressed(s, mode, e) ==
    LET snapToGrid == IF e.control THEN ~e.snapToGrid ELSE e.snapToGrid
        snapToFineGrid == IF e.control THEN FALSE ELSE e.snapToFineGrid
    IN  Do([s EXCEPT !.pointer = [NoPointer EXCEPT !.handler = "mousePressed",
                                                   !.e = e,
                                                   !.snapToGrid = snapToGrid,
                                                   !.snapToFineGrid = snapToFineGrid]],
           LAMBDA s1 :
        IF s1.tool.mNewMapObjectItem # 0
        THEN mousePressedWhileCreatingObject(s1, snapToGrid, snapToFineGrid)
        ELSE IF e.button # "LeftButton" THEN s1
        ELSE IF ~e.objectGroup THEN s1
        ELSE IF mode = "CreateTile" /\ ~s1.tool.mTile THEN s1
        ELSE LET tileCoords == snapTileCoords(e.tileCoords, snapToGrid,
                                              snapToFineGrid, e.gridFine)
                 pixelCoords == tileToPixelCoords(tileCoords)
             IN  startNewMapObject([s1 EXCEPT !.pointer.tileCoords = tileCoords],
                                   pixelCoords, e.created))

setTile(s, tile) == [s EXCEPT !.tool.mTile = tile]

----------------------------------------------------------------------------
(* MapScene: the tool a scene has selected and the tool it has activated   *)

MapScene_setSelectedTool(s, scene, tool) ==
    IF scene \notin DOMAIN s.views THEN Fault(s, "call on a deleted scene")
    ELSE [s EXCEPT !.views[scene].sceneTool = tool]

MapScene_enableSelectedTool(s, scene) ==
    IF scene \notin DOMAIN s.views THEN Fault(s, "call on a deleted scene")
    ELSE IF s.views[scene].sceneTool = "none" THEN s
    ELSE Do([s EXCEPT !.views[scene].activeTool = s.views[scene].sceneTool],
            LAMBDA s1 :
         Emit(IF s.views[scene].sceneTool \in CreateTools
              THEN AbstractObjectTool_activate(s1, scene) ELSE s1,
              "toolEnabled", scene, ""))

MapScene_disableSelectedTool(s, scene) ==
    IF scene \notin DOMAIN s.views THEN Fault(s, "call on a deleted scene")
    ELSE IF s.views[scene].activeTool = "none" THEN s
    ELSE Do(Emit(s, "disableSelectedTool", scene, ""), LAMBDA s1 :
         [(IF s.views[scene].activeTool \in CreateTools
           THEN deactivate(s1, scene) ELSE s1)
            EXCEPT !.views[scene].activeTool = "none"])

----------------------------------------------------------------------------
(* Collaborators of the manager whose code is outside the two files        *)

\* FileSystemWatcher::addPath / removePath: one subscription per open
\* document that carries the path; the path is watched while the count is
\* positive.
addPath(s, path) == [s EXCEPT !.watch[path] = @ + 1]
removePath(s, path) ==
    [s EXCEPT !.watch[path] = IF @ > 0 THEN @ - 1 ELSE @]

\* QUndoGroup::setActiveStack: does nothing for a stack outside the group
setActiveStack(s, stack) ==
    IF stack \in s.mUndoGroup.stacks
    THEN [s EXCEPT !.mUndoGroup.active = stack] ELSE s

\* delete mapDocument: its undo stack leaves the group as it is destroyed
deleteDocument(s, mapDocument) ==
    [s EXCEPT !.documents = Without(@, mapDocument),
              !.mUndoGroup = [stacks |-> @.stacks \ {mapDocument},
                              active |-> IF @.active = mapDocument
                                         THEN 0 ELSE @.active]]

\* A pointer no live object has: what new returns.
NewPointer(s) ==
    LET used == DOMAIN s.documents \cup DOMAIN s.views \cup Range(s.mDocuments)
                \cup Range(s.tabs) \cup s.mUndoGroup.stacks
                \cup {s.mSceneWithTool, s.tool.mMapScene,
                      s.tool.mNewMapObjectItem}
    IN  Min({i \in 1..(Cardinality(used) + 1) : i \notin used})

\* What reading a file gives: nothing, or a map with some layers.
Unreadable == [readable |-> FALSE, layerCount |-> 0]
Contents(d, fileName, layerCounts) ==
    {Unreadable} \cup
    (IF Exists(d, fileName)
     THEN {[readable |-> TRUE, layerCount |-> n] : n \in layerCounts}
     ELSE {})

\* The document MapDocument::load builds from a file that was read.
LoadedDocument(d, fileName, content) ==
    [fileName |-> fileName, modified |-> FALSE,
     lastSaved |-> lastModified(d, fileName),
     layerCount |-> content.layerCount,
     currentLayerIndex |-> IF content.layerCount = 0 THEN -1 ELSE 0,
     undoCount |-> 0, objects |-> 0]

\* A new, never saved map with one layer.
BlankDocument ==
    [fileName |-> "", modified |-> FALSE, lastSaved |-> 0, layerCount |-> 1,
     currentLayerIndex |-> 0, undoCount |-> 0, objects |-> 0]

\* new MapView, new MapScene(view), new MapViewContainer(view): the warning
\* starts hidden, the view unzoomed and unscrolled, one item per object.
NewView(doc) ==
    [warning |-> FALSE, scale |-> 1, horizontal |-> 0, vertical |-> 0,
     items |-> doc.objects, sceneTool |-> "none", activeTool |-> "none"]

----------------------------------------------------------------------------
(* DocumentManager (documentmanager.cpp) *)

currentDocument(s) ==
    IF s.currentIndex = -1 THEN 0
    ELSE IF ValidIndex(s.mDocuments, s.currentIndex)
         THEN At(s.mDocuments, s.currentIndex) ELSE 0

currentMapView(s) ==
    IF ValidIndex(s.tabs, s.currentIndex) THEN At(s.tabs, s.currentIndex) ELSE 0

currentMapScene(s) == currentMapView(s)

viewForDocument(s, mapDocument) ==
    LET index == indexOf(s.mDocuments, mapDocument)
    IN  IF index = -1 \/ ~ValidIndex(s.tabs, index) THEN 0 ELSE At(s.tabs, index)

\* A faulty findDocument, which compares the names as they are written, so
\* that the name of a file that is gone still finds its document
findDocumentByName(s, fileName) ==
    LET hits == {i \in 1..Len(s.mDocuments) :
                    s.documents[s.mDocuments[i]].fileName = fileName}
    IN  IF hits = {} THEN -1 ELSE Min(hits) - 1

findDocument(s, fileName) ==
    LET canonical == canonicalFilePath(s.disk, fileName)
        hits == {i \in 1..Len(s.mDocuments) : Paths(s)[i] = canonical}
    IN  IF canonical = "" \/ hits = {} THEN -1 ELSE Min(hits) - 1

\* A faulty currentIndexChanged, which announces the new document before it
\* disables the tool on the scene of the old one
currentIndexChangedEmittingFirst(s) ==
    Do(Emit(IF currentDocument(s) # 0
            THEN setActiveStack(s, currentDocument(s)) ELSE s,
            "currentDocumentChanged", currentDocument(s), ""), LAMBDA s1 :
    Do(IF s1.mSceneWithTool # 0
       THEN [MapScene_disableSelectedTool(s1, s1.mSceneWithTool)
               EXCEPT !.mSceneWithTool = 0]
       ELSE s1, LAMBDA s2 :
    IF currentMapScene(s2) # 0
    THEN [MapScene_enableSelectedTool(
              MapScene_setSelectedTool(s2, currentMapScene(s2), s2.mSelectedTool),
              currentMapScene(s2))
            EXCEPT !.mSceneWithTool = currentMapScene(s2)]
    ELSE s2))

\* A faulty currentIndexChanged, which leaves the undo group's active stack
currentIndexChangedKeepingStack(s) ==
    Do(IF s.mSceneWithTool # 0
       THEN [MapScene_disableSelectedTool(s, s.mSceneWithTool)
               EXCEPT !.mSceneWithTool = 0]
       ELSE s, LAMBDA s1 :
    Do(Emit(s1, "currentDocumentChanged", currentDocument(s1), ""), LAMBDA s4 :
    IF currentMapScene(s4) # 0
    THEN [MapScene_enableSelectedTool(
              MapScene_setSelectedTool(s4, currentMapScene(s4), s4.mSelectedTool),
              currentMapScene(s4))
            EXCEPT !.mSceneWithTool = currentMapScene(s4)]
    ELSE s4))

currentIndexChanged(s) ==
    Do(IF s.mSceneWithTool # 0
       THEN [MapScene_disableSelectedTool(s, s.mSceneWithTool)
               EXCEPT !.mSceneWithTool = 0]
       ELSE s, LAMBDA s1 :
    Do(IF s1.currentIndex # -1 /\ currentDocument(s1) = 0
       THEN Fault(s1, "mDocuments.at(index) out of range") ELSE s1, LAMBDA s2 :
    Do(IF currentDocument(s2) # 0
       THEN setActiveStack(s2, currentDocument(s2)) ELSE s2, LAMBDA s3 :
    Do(Emit(s3, "currentDocumentChanged", currentDocument(s3), ""), LAMBDA s4 :
    IF currentMapScene(s4) # 0
    THEN [MapScene_enableSelectedTool(
              MapScene_setSelectedTool(s4, currentMapScene(s4), s4.mSelectedTool),
              currentMapScene(s4))
            EXCEPT !.mSceneWithTool = currentMapScene(s4)]
    ELSE s4))))

setSelectedTool(s, tool) ==
    IF s.mSelectedTool = tool THEN s
    ELSE Do([s EXCEPT !.mSelectedTool = tool], LAMBDA s1 :
         IF s1.mSceneWithTool # 0
         THEN Do(MapScene_disableSelectedTool(s1, s1.mSceneWithTool), LAMBDA s2 :
              IF tool # "none"
              THEN MapScene_enableSelectedTool(
                       MapScene_setSelectedTool(s2, s2.mSceneWithTool, tool),
                       s2.mSceneWithTool)
              ELSE s2)
         ELSE s1)

\* A faulty documentTabMoved, which leaves the documents in their old order
documentTabMovedIgnored(s, from, to) == s

documentTabMoved(s, from, to) ==
    IF ValidIndex(s.mDocuments, from) /\ ValidIndex(s.mDocuments, to)
    THEN [s EXCEPT !.mDocuments = Move(@, from, to)]
    ELSE Fault(s, "mDocuments.move out of range")

(* QTabWidget/QTabBar as the manager uses them.  currentChanged is connected  *)
(* to currentIndexChanged and tabMoved to documentTabMoved (constructor).   *)

\* QTabBar::setCurrentIndex: signals only a change to a valid index
setCurrentIndex(s, index) ==
    IF ValidIndex(s.tabs, index) /\ s.currentIndex # index
    THEN currentIndexChanged([s EXCEPT !.currentIndex = index])
    ELSE s

\* QTabWidget::addTab: the first tab becomes the current one
addTab(s, container) ==
    Do([s EXCEPT !.tabs = Append(@, container)], LAMBDA s1 :
    IF Len(s.tabs) = 0 THEN setCurrentIndex(s1, 0) ELSE s1)

\* QTabWidget::removeTab: a removed current tab hands over to its right
\* neighbour (else the last tab); a tab removed before the current one
\* shifts the current index
removeTab(s, index) ==
    IF ~ValidIndex(s.tabs, index) THEN s
    ELSE Do([s EXCEPT !.tabs = RemoveAt(@, index)], LAMBDA s1 :
         IF index = s.currentIndex
         THEN IF Len(s1.tabs) > 0
              THEN setCurrentIndex([s1 EXCEPT !.currentIndex = -1],
                                   IF index >= Len(s1.tabs)
                                   THEN Len(s1.tabs) - 1 ELSE index)
              ELSE currentIndexChanged([s1 EXCEPT !.currentIndex = -1])
         ELSE IF index < s.currentIndex
              THEN setCurrentIndex(s1, s.currentIndex - 1)
              ELSE s1)

\* QTabBar::moveTab: the current tab stays current under its new index;
\* tabMoved is emitted, then currentChanged when the current index changed
tabBarMoveTab(s, from, to) ==
    IF ~ValidIndex(s.tabs, from) \/ ~ValidIndex(s.tabs, to) \/ from = to THEN s
    ELSE LET cur == s.currentIndex
             newCur == IF cur = from THEN to
                       ELSE IF from < cur /\ cur <= to THEN cur - 1
                       ELSE IF to <= cur /\ cur < from THEN cur + 1
                       ELSE cur
         IN  Do([s EXCEPT !.tabs = Move(@, from, to),
                          !.currentIndex = newCur], LAMBDA s1 :
             Do(documentTabMoved(s1, from, to), LAMBDA s2 :
             IF newCur # cur THEN currentIndexChanged(s2) ELSE s2))

\* MovableTabWidget::moveTab
moveTab(s, from, to) == tabBarMoveTab(s, from, to)

\* A faulty switchToDocument, which leaves the current tab as it is
switchToDocumentIgnored(s, index) == s

switchToDocument(s, index) == setCurrentIndex(s, index)

\* view->centerOn(origin)
centerViewOn(s) ==
    LET view == currentMapView(s)
    IN  IF view = 0 \/ view \notin DOMAIN s.views THEN s
        ELSE [s EXCEPT !.views[view].horizontal = 0,
                       !.views[view].vertical = 0]

\* A faulty addDocument, which adds the tab before it registers the document
addDocumentTabFirst(s, mapDocument) ==
    IF mapDocument = 0 \/ mapDocument \in Range(s.mDocuments)
    THEN Fault(s, "Q_ASSERT(!mDocuments.contains(mapDocument))")
    ELSE Do([s EXCEPT !.views =
                With(@, mapDocument, NewView(s.documents[mapDocument]))],
            LAMBDA s1 :
         Do(addTab(s1, mapDocument), LAMBDA s2 :
         Do([s2 EXCEPT !.mDocuments = Append(@, mapDocument),
                       !.mUndoGroup.stacks = @ \cup {mapDocument}], LAMBDA s3 :
         Do(IF s.documents[mapDocument].fileName # ""
            THEN addPath(s3, s.documents[mapDocument].fileName) ELSE s3,
            LAMBDA s4 :
         centerViewOn(switchToDocument(s4, Len(s4.mDocuments) - 1))))))

addDocument(s, mapDocument) ==
    IF mapDocument = 0 \/ mapDocument \in Range(s.mDocuments)
    THEN Fault(s, "Q_ASSERT(!mDocuments.contains(mapDocument))")
    ELSE LET fileName == s.documents[mapDocument].fileName
         IN  Do([s EXCEPT !.mDocuments = Append(@, mapDocument),
                          !.mUndoGroup.stacks = @ \cup {mapDocument}], LAMBDA s1 :
             Do(IF fileName # "" THEN addPath(s1, fileName) ELSE s1, LAMBDA s2 :
             Do([s2 EXCEPT !.views =
                    With(@, mapDocument, NewView(s.documents[mapDocument]))],
                LAMBDA s3 :
             Do(addTab(s3, mapDocument), LAMBDA s4 :
             Do(switchToDocument(s4, Len(s3.mDocuments) - 1), LAMBDA s5 :
             centerViewOn(s5))))))

\* A faulty closeDocumentAt, which removes the tab before the document
closeRemovingTabFirst(s, index) ==
    IF ~ValidIndex(s.mDocuments, index)
    THEN Fault(s, "mDocuments.at(index) out of range")
    ELSE LET mapDocument == At(s.mDocuments, index)
             fileName == s.documents[mapDocument].fileName
         IN  Do(Emit(s, "documentAboutToClose", mapDocument, ""), LAMBDA s1 :
             Do(removeTab(s1, index), LAMBDA s2 :
             Do([s2 EXCEPT !.mDocuments = RemoveAt(@, index)], LAMBDA s3 :
             Do([s3 EXCEPT !.views = Without(@, At(s.tabs, index))], LAMBDA s4 :
             Do(IF fileName # "" THEN removePath(s4, fileName) ELSE s4, LAMBDA s5 :
             deleteDocument(s5, mapDocument))))))

closeDocumentAt(s, index) ==
    IF ~ValidIndex(s.mDocuments, index)
    THEN Fault(s, "mDocuments.at(index) out of range")
    ELSE LET mapDocument == At(s.mDocuments, index)
             mapViewContainer ==
                 IF ValidIndex(s.tabs, index) THEN At(s.tabs, index) ELSE 0
             fileName == s.documents[mapDocument].fileName
         IN  Do(Emit(s, "documentAboutToClose", mapDocument, ""), LAMBDA s1 :
             Do([s1 EXCEPT !.mDocuments = RemoveAt(@, index)], LAMBDA s2 :
             Do(removeTab(s2, index), LAMBDA s3 :
             \* delete mapViewContainer
             Do([s3 EXCEPT !.views = Without(@, mapViewContainer)], LAMBDA s4 :
             Do(IF fileName # "" THEN removePath(s4, fileName) ELSE s4, LAMBDA s5 :
             deleteDocument(s5, mapDocument))))))

\* A faulty closeCurrentDocument, which returns when the current document
\* has unsaved changes
closeCurrentDocumentIfClean(s) ==
    IF s.currentIndex = -1 THEN s
    ELSE IF s.documents[At(s.mDocuments, s.currentIndex)].modified THEN s
    ELSE closeDocumentAt(s, s.currentIndex)

closeCurrentDocument(s) ==
    IF s.currentIndex = -1 THEN s ELSE closeDocumentAt(s, s.currentIndex)

\* A faulty reload, which closes the document whose file it could not load
reloadClosingOnFailure(s, index, content) ==
    [closeDocumentAt(Emit(s, "reloadError", At(s.mDocuments, index),
                          s.documents[At(s.mDocuments, index)].fileName), index)
       EXCEPT !.reload = [index |-> index,
                          result |-> IF content.readable THEN "true" ELSE "false"]]

\* A faulty reload, which replaces the document in its place and restores
\* the view but not the current layer
reloadLosingLayer(s, index, content) ==
    LET oldDocument == At(s.mDocuments, index)
        old == s.documents[oldDocument]
        mapView == viewForDocument(s, oldDocument)
    IN  IF ~content.readable
        THEN [Emit(s, "reloadError", oldDocument, old.fileName)
                EXCEPT !.reload = [index |-> index, result |-> "false"]]
        ELSE Do([s EXCEPT !.documents =
                    With(@, NewPointer(s),
                         LoadedDocument(s.disk, old.fileName, content))],
                LAMBDA s0 :
             Do(addDocument(s0, NewPointer(s)), LAMBDA s1 :
             Do(closeDocumentAt(s1, index), LAMBDA s2 :
             Do(moveTab(s2, Len(s2.mDocuments) - 1, index), LAMBDA s3 :
             [s3 EXCEPT
                !.views[currentMapView(s3)].scale = s.views[mapView].scale,
                !.views[currentMapView(s3)].horizontal =
                    s.views[mapView].horizontal,
                !.views[currentMapView(s3)].vertical = s.views[mapView].vertical,
                !.reload = [index |-> index, result |-> "true"]]))))

\* content: what MapDocument::load read from the old document's file
reloadDocumentAt(s, index, content) ==
    LET oldDocument == At(s.mDocuments, index)
        old == s.documents[oldDocument]
    IN  IF ~content.readable
        THEN [Emit(s, "reloadError", oldDocument, old.fileName)
                EXCEPT !.reload = [index |-> index, result |-> "false"]]
        ELSE LET newDocument == NewPointer(s)
                 \* Remember current view state
                 mapView == viewForDocument(s, oldDocument)
                 layerIndex == old.currentLayerIndex
                 scale == s.views[mapView].scale
                 horizontalPosition == s.views[mapView].horizontal
                 verticalPosition == s.views[mapView].vertical
             IN  Do([s EXCEPT !.documents =
                        With(@, newDocument,
                             LoadedDocument(s.disk, old.fileName, content))],
                    LAMBDA s0 :
                 \* Replace old tab
                 Do(addDocument(s0, newDocument), LAMBDA s1 :
                 Do(closeDocumentAt(s1, index), LAMBDA s2 :
                 Do(moveTab(s2, Len(s2.mDocuments) - 1, index), LAMBDA s3 :
                 \* Restore previous view state
                 Do([s3 EXCEPT
                       !.views[currentMapView(s3)].scale = scale,
                       !.views[currentMapView(s3)].horizontal = horizontalPosition,
                       !.views[currentMapView(s3)].vertical = verticalPosition],
                    LAMBDA s4 :
                 Do(IF layerIndex > 0
                       /\ layerIndex < s4.documents[newDocument].layerCount
                    THEN [s4 EXCEPT !.documents[newDocument].currentLayerIndex
                                       = layerIndex]
                    ELSE s4, LAMBDA s5 :
                 [s5 EXCEPT !.reload = [index |-> index, result |-> "true"]]))))))

reloadCurrentDocument(s, content) ==
    IF s.currentIndex = -1 THEN s
    ELSE reloadDocumentAt(s, s.currentIndex, content)

\* updateDocumentTab only sets the tab's text and tool tip
updateDocumentTab(s, sender) == s

\* A faulty fileNameChanged, which keeps the subscription of the old name
fileNameChangedKeepingOld(s, sender, fileName, oldFileName) ==
    updateDocumentTab(IF fileName # "" THEN addPath(s, fileName) ELSE s, sender)

fileNameChanged(s, sender, fileName, oldFileName) ==
    Do(IF fileName # "" THEN addPath(s, fileName) ELSE s, LAMBDA s1 :
    Do(IF oldFileName # "" THEN removePath(s1, oldFileName) ELSE s1, LAMBDA s2 :
    updateDocumentTab(s2, sender)))

\* A faulty documentSaved, which leaves the warning as it is
documentSavedKeepingWarning(s, sender) ==
    IF indexOf(s.mDocuments, sender) = -1
    THEN Fault(s, "Q_ASSERT(index != -1)") ELSE s

documentSaved(s, sender) ==
    LET index == indexOf(s.mDocuments, sender)
    IN  IF index = -1 THEN Fault(s, "Q_ASSERT(index != -1)")
        ELSE [s EXCEPT !.views[At(s.tabs, index)].warning = FALSE]

\* A faulty fileChanged, which does not recognise the manager's own save
fileChangedUnsuppressed(s, fileName, content) ==
    LET index == findDocument(s, fileName)
    IN  IF index = -1 THEN s
        ELSE IF ~s.documents[At(s.mDocuments, index)].modified
             THEN reloadDocumentAt(s, index, content)
             ELSE [s EXCEPT !.views[At(s.tabs, index)].warning = TRUE]

\* A faulty fileChanged, which reloads a document with unsaved changes too
fileChangedReloadingDirty(s, fileName, content) ==
    LET index == findDocument(s, fileName)
    IN  IF index = -1 THEN s
        ELSE IF lastModified(s.disk, fileName)
                  = s.documents[At(s.mDocuments, index)].lastSaved
             THEN s
             ELSE reloadDocumentAt(s, index, content)

fileChanged(s, fileName, content) ==
    LET index == findDocument(s, fileName)
    IN  \* Most likely the file was removed
        IF index = -1 THEN s
        ELSE LET document == s.documents[At(s.mDocuments, index)]
             IN  \* Ignore change event when it seems to be our own save
                 IF lastModified(s.disk, fileName) = document.lastSaved THEN s
                 \* Automatically reload when there are no unsaved changes
                 ELSE IF ~document.modified
                      THEN reloadDocumentAt(s, index, content)
                      ELSE [s EXCEPT !.views[At(s.tabs, index)].warning = TRUE]

\* sender: the container whose warning's reload button was pressed
reloadRequested(s, sender, content) ==
    LET index == indexOf(s.tabs, sender)
    IN  IF index = -1 THEN Fault(s, "Q_ASSERT(index != -1)")
        ELSE reloadDocumentAt(s, index, content)

\* MapViewContainer: ignore() is connected to the warning's hide()
ignoreRequested(s, container) ==
    [s EXCEPT !.views[container].warning = FALSE]

\* MapDocument::save(fileName): writes the file (at time t), marks the undo
\* stack clean, takes the name, remembers the time, emits saved()
saveDocument(s, mapDocument, fileName, t) ==
    LET old == s.documents[mapDocument]
    IN  Do([s EXCEPT !.disk[Target(fileName)] = t,
                     !.documents[mapDocument].modified = FALSE,
                     !.documents[mapDocument].fileName = fileName], LAMBDA s1 :
        Do(IF old.modified THEN updateDocumentTab(s1, mapDocument) ELSE s1,
           LAMBDA s2 :
        Do(IF old.fileName # fileName
           THEN fileNameChanged(s2, mapDocument, fileName, old.fileName)
           ELSE s2, LAMBDA s3 :
        Do([s3 EXCEPT !.documents[mapDocument].lastSaved = t], LAMBDA s4 :
        documentSaved(s4, mapDocument)))))

----------------------------------------------------------------------------
(* The initial state: DocumentManager's and CreateObjectTool's constructors *)

\* pressed while no session is in progress
NoPress == [objects |-> 0, items |-> 0, undoCount |-> 0]

Init ==
    /\ documents = <<>>
    /\ views = <<>>
    /\ mDocuments = <<>>
    /\ mTabWidget = [tabs |-> <<>>, currentIndex |-> -1]
    /\ mUndoGroup = [stacks |-> {}, active |-> 0]
    /\ mSelectedTool = "none"
    /\ mSceneWithTool = 0
    /\ mFileSystemWatcher = [path \in FileNames |-> 0]
    /\ disk = [file \in Files |-> 1]
    /\ createTool = [mNewMapObjectItem |-> 0, mOverlayPolygonItem |-> FALSE,
                     mTile |-> FALSE, mMapScene |-> 0, detached |-> 0]
    /\ log = <<>>
    /\ reload = [index |-> -1, result |-> "none"]
    /\ fault = ""
    /\ event = [name |-> "init", file |-> "", index |-> -1, key |-> ""]
    /\ pressed = NoPress
    /\ pointer = NoPointer
    /\ pc = "events"

----------------------------------------------------------------------------
(* Events.  Each runs one handler to completion on the state as it is.     *)

\* pressed follows the session: taken when a session starts, dropped when it ends
Recorded(name, file, index, key, s) ==
    /\ Becomes(s)
    /\ event' = [name |-> name, file |-> file, index |-> index, key |-> key]
    /\ pressed' =
         IF s.tool.mNewMapObjectItem = 0 THEN NoPress
         ELSE IF createTool.mNewMapObjectItem # 0 THEN pressed
         ELSE [objects |-> documents[s.tool.mNewMapObjectItem].objects,
               items |-> views[s.tool.mNewMapObjectItem].items,
               undoCount |-> documents[s.tool.mNewMapObjectItem].undoCount]

\* The event loop takes an event and runs its handler to completion.
Handled(name, file, index, key, s) ==
    /\ pc = "events"
    /\ pc' = "events"
    /\ Recorded(name, file, index, key, s)

\* The views a user's zooming and scrolling may leave.
ViewStates ==
    {[scale |-> 1, horizontal |-> 0, vertical |-> 0],
     [scale |-> 2, horizontal |-> 1, vertical |-> 2]}

Keys == {"Enter", "Return", "Escape", "Other"}
Buttons == {"LeftButton", "RightButton"}

\* File > New: a new map is added
NewDocument(max) ==
    /\ Len(mDocuments) < max
    /\ LET id == NewPointer(Here)
           s0 == [Here EXCEPT !.documents = With(@, id, BlankDocument)]
       IN  Handled("newDocument", "", -1, "", addDocument(s0, id))

\* File > Open of a file that is not open yet and can be read
OpenDocument(max, names, layerCounts) ==
    /\ Len(mDocuments) < max
    /\ \E fileName \in names :
         \E content \in Contents(disk, fileName, layerCounts) :
           /\ content.readable
           /\ findDocument(Here, fileName) = -1
           /\ LET id == NewPointer(Here)
                  s0 == [Here EXCEPT !.documents =
                            With(@, id, LoadedDocument(disk, fileName, content))]
              IN  Handled("openDocument", fileName, -1, "", addDocument(s0, id))

\* A tab's close button
CloseDocument ==
    /\ \E index \in 0..(Len(mDocuments) - 1) :
         Handled("closeDocumentAt", "", index, "", closeDocumentAt(Here, index))

\* A click on a tab
SwitchToDocument ==
    /\ \E index \in 0..(Len(mDocuments) - 1) :
         Handled("switchToDocument", "", index, "", switchToDocument(Here, index))

\* The user drags a tab to another position
TabMoved ==
    /\ \E from \in 0..(Len(mDocuments) - 1), to \in 0..(Len(mDocuments) - 1) :
         /\ from # to
         /\ Handled("tabMoved", "", from, "", tabBarMoveTab(Here, from, to))

\* File > Reload
ReloadCurrentDocument(layerCounts) ==
    /\ mTabWidget.currentIndex # -1
    /\ \E content \in Contents(disk,
                  documents[currentDocument(Here)].fileName, layerCounts) :
         Handled("reloadCurrentDocument", "", mTabWidget.currentIndex, "",
                 reloadCurrentDocument(Here, content))

\* The watcher delivers a change of fileName.  A notification may arrive
\* after the path was unsubscribed, so any name may be delivered.
FileChanged(layerCounts) ==
    /\ \E fileName \in FileNames :
         LET index == findDocument(Here, fileName)
         IN  \E content \in
                 IF index = -1 THEN {Unreadable}
                 ELSE Contents(disk, documents[At(mDocuments, index)].fileName,
                               layerCounts) :
               Handled("fileChanged", fileName, index, "",
                       fileChanged(Here, fileName, content))

\* The user presses Yes on a visible warning
ReloadRequested(layerCounts) ==
    /\ \E index \in 0..(Len(mTabWidget.tabs) - 1) :
         /\ views[At(mTabWidget.tabs, index)].warning
         /\ \E content \in Contents(disk,
                   documents[At(mDocuments, index)].fileName, layerCounts) :
              Handled("reloadRequested", "", index, "",
                      reloadRequested(Here, At(mTabWidget.tabs, index), content))

\* The user presses No on a visible warning
IgnoreRequested ==
    /\ \E index \in 0..(Len(mTabWidget.tabs) - 1) :
         /\ views[At(mTabWidget.tabs, index)].warning
         /\ Handled("ignoreRequested", "", index, "",
                    ignoreRequested(Here, At(mTabWidget.tabs, index)))

\* File > Save and Save As of the current document
SaveDocument(names) ==
    /\ mTabWidget.currentIndex # -1
    /\ \E fileName \in names, t \in Times :
         Handled("saveDocument", fileName, mTabWidget.currentIndex, "",
                 saveDocument(Here, currentDocument(Here), fileName, t))

\* An edit of the current document outside the creation tool (a command of
\* another tool, undo, redo): the undo stack is no longer clean
EditDocument ==
    /\ mTabWidget.currentIndex # -1
    /\ ~documents[currentDocument(Here)].modified
    /\ Handled("editDocument", "", mTabWidget.currentIndex, "",
               updateDocumentTab(
                   [Here EXCEPT !.documents[currentDocument(Here)].modified = TRUE],
                   currentDocument(Here)))

\* Another program writes a file
FileTouched ==
    /\ \E file \in Files, t \in Times :
         /\ disk[file] # t
         /\ Handled("fileTouched", file, -1, "", [Here EXCEPT !.disk[file] = t])

\* Another program removes a file
FileRemoved ==
    /\ \E file \in Files :
         /\ disk[file] # 0
         /\ Handled("fileRemoved", file, -1, "", [Here EXCEPT !.disk[file] = 0])

\* The user zooms and scrolls the current view
ViewChanged ==
    /\ mTabWidget.currentIndex # -1
    /\ \E v \in ViewStates :
         LET view == currentMapView(Here)
         IN  /\ <<views[view].scale, views[view].horizontal, views[view].vertical>>
                  # <<v.scale, v.horizontal, v.vertical>>
             /\ Handled("viewChanged", "", mTabWidget.currentIndex, "",
                        [Here EXCEPT !.views[view].scale = v.scale,
                                     !.views[view].horizontal = v.horizontal,
                                     !.views[view].vertical = v.vertical])

\* The user selects another layer of the current document
SetCurrentLayer ==
    /\ mTabWidget.currentIndex # -1
    /\ LET doc == currentDocument(Here)
       IN  \E layer \in 0..(documents[doc].layerCount - 1) :
             /\ layer # documents[doc].currentLayerIndex
             /\ Handled("setCurrentLayerIndex", "", layer, "",
                        [Here EXCEPT !.documents[doc].currentLayerIndex = layer])

\* The tool bar selects a tool
SetSelectedTool(tools) ==
    /\ \E tool \in tools :
         /\ tool # mSelectedTool
         /\ Handled("setSelectedTool", "", -1, tool, setSelectedTool(Here, tool))

\* The tileset view selects or deselects a tile
SetTile ==
    /\ \E tile \in BOOLEAN :
         /\ tile # createTool.mTile
         /\ Handled("setTile", "", -1, "", setTile(Here, tile))

\* The scene that passes its events to a creation tool, or 0
ToolScene ==
    LET scene == currentMapScene(Here)
    IN  IF scene # 0 /\ views[scene].activeTool \in CreateTools THEN scene ELSE 0

\* The mouse events with the given buttons, modifier and preference values,
\* positions, subdivisions, and outcomes of the object group's and the
\* factory's answers
MouseEvents(buttons, flags, points, grids, answers) ==
    [button : buttons, control : flags, snapToGrid : flags,
     snapToFineGrid : flags, gridFine : grids, tileCoords : points,
     objectGroup : answers, created : answers]

\* Mouse events at the origin with snapping off
PlainEvents(buttons, answers) ==
    MouseEvents(buttons, {FALSE}, {<<0, 0>>}, {1}, answers)

\* A mouse press on the scene.  overlay: the instance is a multi-point tool.
MousePressed(events, overlays) ==
    /\ ToolScene # 0
    /\ \E e \in events, overlay \in overlays :
         LET mode == views[ToolScene].activeTool
             s1 == mousePressed(Here, mode, e)
             started == createTool.mNewMapObjectItem = 0
                        /\ s1.tool.mNewMapObjectItem # 0
             s2 == IF started /\ overlay /\ mode = "CreateGeometry"
                   THEN startOverlay(s1) ELSE s1
         IN  Handled("mousePressed", "", createTool.mNewMapObjectItem,
                     e.button, s2)

MouseMoved(events) ==
    /\ ToolScene # 0
    /\ \E e \in events :
         Handled("mouseMoved", "", createTool.mNewMapObjectItem, "",
                 mouseMoved(Here, e))

MouseReleased(events) ==
    /\ ToolScene # 0
    /\ \E e \in events :
         Handled("mouseReleased", "", createTool.mNewMapObjectItem, e.button,
                 mouseReleased(Here, e))

\* Shutdown: closeAllDocuments() is called
CloseAllDocuments ==
    /\ pc = "events"
    /\ pc' = "closeAllDocuments"
    /\ Recorded("closeAllDocuments", "", mTabWidget.currentIndex, "", Here)

\* while (!mDocuments.isEmpty()): the loop goes on to its body or ends, and
\* closeAllDocuments returns
CloseAllTest ==
    /\ pc = "closeAllDocuments"
    /\ pc' = IF mDocuments # <<>> THEN "closeCurrentDocument" ELSE "closed"
    /\ Recorded("closeAllDocuments", "", mTabWidget.currentIndex, "", Here)

\* The body of the loop: closeCurrentDocument();
CloseAllBody ==
    /\ pc = "closeCurrentDocument"
    /\ pc' = "closeAllDocuments"
    /\ Recorded("closeCurrentDocument", "", mTabWidget.currentIndex, "",
                closeCurrentDocument(Here))

\* The call in the body of the loop returns to the loop's test
CloseCurrentReturns ==
    /\ pc = "closeCurrentDocument"
    /\ pc' = "closeAllDocuments"

\* deleteInstance(): the destructor asserts that no document is open
DeleteInstance ==
    /\ pc = "closed"
    /\ pc' = "deleted"
    /\ Recorded("deleteInstance", "", mTabWidget.currentIndex, "",
                IF mDocuments = <<>> THEN Here
                ELSE Fault(Here, "Q_ASSERT(mDocuments.isEmpty())"))

\* A key press on the scene; a commit needs room on the undo stack
KeyPressed ==
    /\ ToolScene # 0
    /\ \E key \in Keys :
         /\ (key \in {"Enter", "Return"} /\ createTool.mNewMapObjectItem # 0)
               => documents[ToolScene].undoCount < MaxUndo
         /\ Handled("keyPressed", "", createTool.mNewMapObjectItem, key,
                    keyPressed(Here, key))

----------------------------------------------------------------------------
(* Specifications *)

\* The registry and the reconciliation with the file system
Next ==
    \/ OpenDocument(MaxOpen, Files, {1})
    \/ CloseDocument
    \/ SwitchToDocument
    \/ ReloadCurrentDocument({1})
    \/ FileChanged({1})
    \/ ReloadRequested({1})
    \/ IgnoreRequested
    \/ SaveDocument(Files)
    \/ EditDocument
    \/ FileTouched

Spec == Init /\ [][Next]_vars

\* Tabs: more documents, their order, views and layers
NextTabs ==
    \/ NewDocument(MaxTabs)
    \/ OpenDocument(MaxTabs, {"a"}, 1..MaxLayers)
    \/ CloseDocument
    \/ SwitchToDocument
    \/ TabMoved
    \/ ReloadCurrentDocument(1..MaxLayers)
    \/ ViewChanged
    \/ SetCurrentLayer

SpecTabs == Init /\ [][NextTabs]_vars

\* The watch subscriptions: untitled documents, save under another name,
\* links, files that are removed
NextWatch ==
    \/ NewDocument(MaxOpen)
    \/ OpenDocument(MaxOpen, FileNames, {1})
    \/ CloseDocument
    \/ ReloadCurrentDocument({1})
    \/ FileChanged({1})
    \/ SaveDocument(Files)
    \/ EditDocument
    \/ FileRemoved

SpecWatch == Init /\ [][NextWatch]_vars

\* The creation tools on the documents of the registry
NextTool ==
    \/ OpenDocument(MaxOpen, Files, {1})
    \/ CloseDocument
    \/ SwitchToDocument
    \/ TabMoved
    \/ ReloadCurrentDocument({1})
    \/ SetSelectedTool({"none"} \cup CreateTools)
    \/ SetTile
    \/ MousePressed(PlainEvents(Buttons, BOOLEAN), BOOLEAN)
    \/ MouseMoved(PlainEvents({"NoButton"}, {TRUE}))
    \/ MouseReleased(PlainEvents({"LeftButton"}, {TRUE}))
    \/ KeyPressed

SpecTool == Init /\ [][NextTool]_vars

\* Snapping: one document, the creation tools, and mouse events with every
\* modifier and preference value at positions around the origin
NextSnap ==
    \/ OpenDocument(1, {"a"}, {1})
    \/ SetSelectedTool({"CreateGeometry"})
    \/ MousePressed(MouseEvents({"LeftButton"}, BOOLEAN, Points, GridFines,
                                {TRUE}), {FALSE})
    \/ MouseMoved(MouseEvents({"NoButton"}, BOOLEAN, {<<0, 0>>}, {1}, {TRUE}))
    \/ MouseReleased(MouseEvents({"LeftButton"}, BOOLEAN, {<<0, 0>>}, {1},
                                 {TRUE}))
    \/ KeyPressed

SpecSnap == Init /\ [][NextSnap]_vars

\* Shutdown: from any state of the registry closeAllDocuments is called and
\* the manager deleted.  The loop of closeAllDocuments is code of the one
\* running thread: its test is evaluated when the program is at it, and
\* the call of closeCurrentDocument, which has no loop, returns.
NextClose ==
    \/ NewDocument(MaxTabs)
    \/ OpenDocument(MaxTabs, {"a"}, {1})
    \/ CloseDocument
    \/ SwitchToDocument
    \/ TabMoved
    \/ ReloadCurrentDocument({1})
    \/ EditDocument
    \/ CloseAllDocuments
    \/ CloseAllTest
    \/ CloseAllBody
    \/ DeleteInstance

SpecClose ==
    /\ Init
    /\ [][NextClose]_vars
    /\ WF_vars(CloseAllTest)
    /\ WF_pc(CloseCurrentReturns)

----------------------------------------------------------------------------
(* Properties of reloading and of the reconciliation with the file system  *)

\* What a reload that failed must have left alone
Registry == <<documents, mDocuments, mTabWidget, views, mFileSystemWatcher,
              mUndoGroup>>

\* C1: whenever reloadDocumentAt(index) cannot load the file, the documents
\* and their order, the active index, every view and its warning, and the
\* watch subscriptions are what they were before the call, the call returns
\* false, and exactly one reloadError naming the file is emitted.
ReloadFailureIsAtomic ==
    [][reload'.result = "false" =>
          /\ UNCHANGED Registry
          /\ Len(log') = 1
          /\ log'[1].ev = "reloadError"
          /\ log'[1].file = documents[At(mDocuments, reload'.index)].fileName]_vars

\* A reload of a document that is not the active one has failed, with two
\* documents open and a warning showing.
ReloadHasFailed ==
    /\ reload.result = "false"
    /\ Len(mDocuments) = 2
    /\ reload.index # mTabWidget.currentIndex
    /\ \E v \in DOMAIN views : views[v].warning

NoDuplicate(paths) ==
    \A i, j \in 1..Len(paths) : (i # j /\ paths[i] # "") => paths[i] # paths[j]

\* C3: in every state, and in every state a slot connected to one of the
\* manager's signals sees, no two registered documents resolve to the same
\* canonical file path.
CanonicalPathsAreUnique ==
    /\ NoDuplicate(Paths(Here))
    /\ \A k \in 1..Len(log) : NoDuplicate(log[k].paths)

\* C4: with documents A and B open and B active, a change notification for
\* the file of A, which has no unsaved changes and another last-saved time,
\* leaves B's document, view and tab position untouched and B active.
ReloadOfOtherLeavesActive ==
    [][\A a, b \in 0..1 :
          (/\ event'.name = "fileChanged"
           /\ Len(mDocuments) = 2
           /\ a # b
           /\ mTabWidget.currentIndex = b
           /\ findDocument(Here, event'.file) = a
           /\ ~documents[At(mDocuments, a)].modified
           /\ lastModified(disk, event'.file)
                 # documents[At(mDocuments, a)].lastSaved
           /\ Paths(Here)[a + 1] # Paths(Here)[b + 1])
          => /\ mTabWidget'.currentIndex = b
             /\ At(mDocuments', b) = At(mDocuments, b)
             /\ At(mTabWidget'.tabs, b) = At(mTabWidget.tabs, b)
             /\ documents'[At(mDocuments, b)] = documents[At(mDocuments, b)]
             /\ views'[At(mTabWidget.tabs, b)] = views[At(mTabWidget.tabs, b)]]_vars

\* C5: a change notification whose file has the modification time that the
\* document it resolves to was last saved with reloads nothing, shows no
\* warning and changes nothing of the manager, whether or not the document
\* has unsaved changes.
OwnSaveIsIgnored ==
    [][\A i \in 0..(Len(mDocuments) - 1) :
          (/\ event'.name = "fileChanged"
           /\ findDocument(Here, event'.file) = i
           /\ lastModified(disk, event'.file)
                 = documents[At(mDocuments, i)].lastSaved)
          => /\ reload'.result = "none"
             /\ log' = <<>>
             /\ UNCHANGED <<Registry, mSelectedTool, mSceneWithTool, disk,
                            createTool, fault>>]_vars

\* A notification for the file of a document with unsaved changes, written
\* last by the document's own save at a time other than the first, was ignored.
OwnSaveWasIgnored ==
    /\ event.name = "fileChanged"
    /\ event.index # -1
    /\ findDocument(Here, event.file) = event.index
    /\ LET document == documents[At(mDocuments, event.index)]
       IN  /\ document.modified
           /\ document.lastSaved = lastModified(disk, event.file)
           /\ document.lastSaved # 1
    /\ reload.result = "none"

\* C10: a change notification, with another modification time than the
\* last save, for a document with unsaved changes only shows the warning of
\* that document's view: documents, order, active index and views are
\* otherwise unchanged and nothing is reloaded.  A document with unsaved
\* changes is reloaded only on the user's request, and the request made
\* through a warning reloads the document whose view owns that warning.
DirtyDocumentIsOnlyWarned ==
    [][/\ \A i \in 0..(Len(mDocuments) - 1) :
            (/\ event'.name = "fileChanged"
             /\ findDocument(Here, event'.file) = i
             /\ lastModified(disk, event'.file)
                   # documents[At(mDocuments, i)].lastSaved
             /\ documents[At(mDocuments, i)].modified)
            => /\ reload'.result = "none"
               /\ log' = <<>>
               /\ UNCHANGED <<documents, mDocuments, mTabWidget,
                              mFileSystemWatcher, mUndoGroup>>
               /\ views' = [views EXCEPT
                               ![At(mTabWidget.tabs, i)].warning = TRUE]
       /\ (/\ reload'.result # "none"
           /\ documents[At(mDocuments, reload'.index)].modified)
            => event'.name \in {"reloadRequested", "reloadCurrentDocument"}
       /\ event'.name = "reloadRequested"
            => /\ views[At(mTabWidget.tabs, event'.index)].warning
               /\ reload'.index = event'.index
               /\ At(mDocuments, reload'.index)
                     = At(mTabWidget.tabs, event'.index)]_vars

\* A notification has just made the warning of a document show that has
\* unsaved changes and is not the active one.
DirtyDocumentWasWarned ==
    /\ event.name = "fileChanged"
    /\ event.index # -1
    /\ event.index # mTabWidget.currentIndex
    /\ reload.result = "none"
    /\ LET document == documents[At(mDocuments, event.index)]
       IN  /\ document.modified
           /\ document.lastSaved # lastModified(disk, event.file)
           /\ views[At(mTabWidget.tabs, event.index)].warning

\* C2: after a successful reloadDocumentAt(i) the number of documents is
\* unchanged, the old document is registered no more, the new document is at
\* index i, every other document and tab is where it was, the tab at i is the
\* new document's view, and that view has the zoom and the scroll positions
\* that the old document's view had.
ReloadReplacesInPlace ==
    [][reload'.result = "true" =>
          LET i == reload'.index
              oldDocument == At(mDocuments, i)
              oldView == At(mTabWidget.tabs, i)
              newDocument == At(mDocuments', i)
              newView == At(mTabWidget'.tabs, i)
          IN  /\ Len(mDocuments') = Len(mDocuments)
              /\ Len(mTabWidget'.tabs) = Len(mTabWidget.tabs)
              /\ oldDocument \notin Range(mDocuments')
              /\ oldDocument \notin DOMAIN documents'
              /\ newDocument \notin Range(mDocuments)
              /\ newDocument \in DOMAIN documents'
              /\ documents'[newDocument].fileName = documents[oldDocument].fileName
              /\ \A j \in 0..(Len(mDocuments) - 1) :
                    j # i => /\ At(mDocuments', j) = At(mDocuments, j)
                             /\ At(mTabWidget'.tabs, j) = At(mTabWidget.tabs, j)
              /\ newView = newDocument
              /\ newView \in DOMAIN views' \ DOMAIN views
              /\ views'[newView].scale = views[oldView].scale
              /\ views'[newView].horizontal = views[oldView].horizontal
              /\ views'[newView].vertical = views[oldView].vertical]_vars

\* The middle one of three documents, zoomed and scrolled, has been reloaded.
ReloadHasReplacedInPlace ==
    /\ reload.result = "true"
    /\ reload.index = 1
    /\ Len(mDocuments) = 3
    /\ views[At(mTabWidget.tabs, 1)].scale = 2
    /\ views[At(mTabWidget.tabs, 1)].horizontal = 1
    /\ views[At(mTabWidget.tabs, 1)].vertical = 2

----------------------------------------------------------------------------
(* Properties of the watch subscriptions and of opening                    *)

\* The name resolves to no registered document: its file does not exist, or
\* no registered document has its canonical path
Unmatched(fileName) ==
    \/ ~Exists(disk, fileName)
    \/ \A i \in 1..Len(mDocuments) :
          \/ ~Exists(disk, documents[mDocuments[i]].fileName)
          \/ Target(documents[mDocuments[i]].fileName) # Target(fileName)

\* C11: a change notification whose path resolves to no open document (the
\* file is not on disk, or no open document has its canonical path) changes
\* nothing: documents, order, active index, views and their warnings, watch
\* subscriptions and undo group are as before, nothing is reloaded and no
\* signal is emitted.
UnmatchedChangeIsIgnored ==
    [][(event'.name = "fileChanged" /\ Unmatched(event'.file)) =>
          /\ UNCHANGED <<Registry, disk, mSelectedTool, mSceneWithTool,
                         createTool, fault>>
          /\ log' = <<>>
          /\ reload'.result = "none"]_vars

\* A notification has arrived for a file that is gone while a document with
\* unsaved changes, whose warning is not showing, carries its name.
UnmatchedChangeWasIgnored ==
    /\ event.name = "fileChanged"
    /\ disk[Target(event.file)] = 0
    /\ \E d \in Range(mDocuments) :
          /\ documents[d].fileName = event.file
          /\ documents[d].modified
          /\ ~views[d].warning

\* C12: in every state a path is subscribed if and only if at least one
\* registered document carries it as its (non-empty) file name: after open,
\* close, save under another name and reload alike.
SubscriptionsTrackDocuments ==
    \A path \in FileNames :
       mFileSystemWatcher[path] > 0
          <=> \E d \in Range(mDocuments) : documents[d].fileName = path

\* One of two documents that carried the same file name has been closed: the
\* other is still open and the name still subscribed.
SharedPathStaysSubscribed ==
    /\ event.name = "closeDocumentAt"
    /\ Len(log) > 0
    /\ log[1].ev = "documentAboutToClose"
    /\ log[1].paths = <<"a", "a">>
    /\ Len(mDocuments) = 1
    /\ documents[mDocuments[1]].fileName = "a"
    /\ mFileSystemWatcher["a"] > 0

\* C13: after a successful reloadDocumentAt(i) the new document's current
\* layer is the old document's current layer L whenever L is a layer of the
\* newly loaded map (0 <= L < layerCount), and otherwise the current layer
\* a newly loaded document has.
ReloadKeepsCurrentLayer ==
    [][reload'.result = "true" =>
          LET old == documents[At(mDocuments, reload'.index)]
              new == documents'[At(mDocuments', reload'.index)]
              L == old.currentLayerIndex
          IN  new.currentLayerIndex =
                IF 0 <= L /\ L < new.layerCount THEN L
                ELSE LoadedDocument(disk, old.fileName,
                         [readable |-> TRUE, layerCount |-> new.layerCount])
                       .currentLayerIndex]_vars

\* A document whose current layer was not the first has been reloaded, with
\* another document open, and has that layer current again.
ReloadHasKeptLayer ==
    /\ reload.result = "true"
    /\ Len(mDocuments) > 1
    /\ documents[At(mDocuments, reload.index)].currentLayerIndex = 1

\* C15: addDocument of a document that is not registered appends it to the
\* documents, whose order is otherwise unchanged, appends exactly one new
\* view for it to the tabs, adds its undo stack to the undo group, subscribes
\* its file name if and only if that is not empty, and makes it the active
\* document.
OpenAppendsAndActivates ==
    [][event'.name \in {"newDocument", "openDocument"} =>
          LET new == mDocuments'[Len(mDocuments')]
              view == mTabWidget'.tabs[Len(mTabWidget'.tabs)]
              fileName == documents'[new].fileName
          IN  /\ mDocuments' = Append(mDocuments, new)
              /\ new \notin Range(mDocuments)
              /\ \A d \in DOMAIN documents : documents'[d] = documents[d]
              /\ mTabWidget'.tabs = Append(mTabWidget.tabs, view)
              /\ view \notin DOMAIN views
              /\ DOMAIN views' = DOMAIN views \cup {view}
              /\ viewForDocument([mDocuments |-> mDocuments',
                                  tabs |-> mTabWidget'.tabs], new) = view
              /\ mUndoGroup'.stacks = mUndoGroup.stacks \cup {new}
              /\ mUndoGroup'.active = new
              /\ fileName = event'.file
              /\ mFileSystemWatcher' =
                    IF fileName = "" THEN mFileSystemWatcher
                    ELSE [mFileSystemWatcher EXCEPT ![fileName] = @ + 1]
              /\ mTabWidget'.currentIndex = Len(mDocuments)
              /\ currentDocument([mDocuments |-> mDocuments',
                                  currentIndex |-> mTabWidget'.currentIndex])
                    = new]_vars

\* An untitled document has been added as the third while a document with a
\* file was open: it is the active one and only the file is subscribed.
UntitledWasOpenedThird ==
    /\ event.name = "newDocument"
    /\ Len(mDocuments) = 3
    /\ mTabWidget.currentIndex = 2
    /\ documents[mDocuments[3]].fileName = ""
    /\ \E i \in 1..2 : documents[mDocuments[i]].fileName = "a"
    /\ mFileSystemWatcher["a"] = 1

----------------------------------------------------------------------------
(* Properties of the creation tool                                         *)

\* The step is an Enter or a Return that meets an open session
Commits ==
    /\ event'.name = "keyPressed"
    /\ event'.key \in {"Enter", "Return"}
    /\ createTool.mNewMapObjectItem # 0

\* C6: while a session is open its document's undo stack has no entry for
\* the new object; Enter or Return in a session pushes exactly one command
\* on that stack, leaves the tool idle and the object in its group once; and
\* no other event changes the number of entries of any undo stack.
CommitIsTheOnlyPush ==
    /\ [](createTool.mNewMapObjectItem # 0 =>
            LET g == createTool.mNewMapObjectItem
            IN  /\ g \in DOMAIN documents
                /\ documents[g].undoCount = pressed.undoCount
                /\ documents[g].objects = pressed.objects + 1)
    /\ [][/\ \A d \in DOMAIN documents \cap DOMAIN documents' :
                documents'[d].undoCount # documents[d].undoCount
                    => Commits /\ d = toolMapDocument(Here)
          /\ Commits =>
                LET g == createTool.mNewMapObjectItem
                    d == toolMapDocument(Here)
                IN  /\ documents'[d].undoCount = documents[d].undoCount + 1
                    /\ \A e \in DOMAIN documents \ {d} :
                          documents'[e].undoCount = documents[e].undoCount
                    /\ createTool'.mNewMapObjectItem = 0
                    /\ documents'[g].objects = pressed.objects + 1
                    /\ views'[g].items = pressed.items + 1
                    /\ createTool'.detached = 0]_vars

\* Enter or Return has just committed a session.
SessionWasCommitted ==
    /\ event.name = "keyPressed"
    /\ event.key \in {"Enter", "Return"}
    /\ event.index \in DOMAIN documents
    /\ createTool.mNewMapObjectItem = 0
    /\ documents[event.index].undoCount = 1
    /\ documents[event.index].objects = 1

\* C7: Escape in a session leaves the tool idle, the group's object count and
\* the scene's item count (the overlay's item included) what they were before
\* the press that began the session, the new object destroyed, and the undo
\* stack without a new entry.
CancelRestoresCounts ==
    [][(/\ event'.name = "keyPressed"
        /\ event'.key = "Escape"
        /\ createTool.mNewMapObjectItem # 0) =>
          LET g == createTool.mNewMapObjectItem
          IN  /\ createTool'.mNewMapObjectItem = 0
              /\ ~createTool'.mOverlayPolygonItem
              /\ createTool'.detached = 0
              /\ documents'[g].objects = pressed.objects
              /\ views'[g].items = pressed.items
              /\ documents'[g].undoCount = pressed.undoCount
              /\ documents'[g].undoCount = documents[g].undoCount]_vars

\* Escape has just cancelled a session on a document that already had an
\* object and an undo entry.
SessionWasCancelled ==
    /\ event.name = "keyPressed"
    /\ event.key = "Escape"
    /\ event.index \in DOMAIN documents
    /\ createTool.mNewMapObjectItem = 0
    /\ documents[event.index].objects = 1
    /\ documents[event.index].undoCount = 1
    /\ views[event.index].items = 1

\* C8: when a handler that meets an open session changes the active
\* document (a switch, a close, a reload, a moved tab), then whenever it
\* emits currentDocumentChanged and whenever it enables the tool on a scene
\* the session is over, its object is out of its group and no undo entry
\* was made.
SessionCancelledBeforeSwitch ==
    [][createTool.mNewMapObjectItem # 0 =>
          LET g == createTool.mNewMapObjectItem
          IN  \A k \in 1..Len(log') :
                log'[k].ev \in {"currentDocumentChanged", "toolEnabled"} =>
                    /\ ~log'[k].session
                    /\ g \in DOMAIN log'[k].objects =>
                          /\ log'[k].objects[g] = pressed.objects
                          /\ log'[k].undo[g] = pressed.undoCount]_vars

\* A switch to another document has met an open session: the tool was
\* disabled with the session open, then the other document was announced.
SwitchHasMetSession ==
    /\ event.name = "switchToDocument"
    /\ Len(log) = 3
    /\ log[1].ev = "disableSelectedTool"
    /\ log[1].session
    /\ log[2].ev = "currentDocumentChanged"
    /\ log[2].id # log[1].id
    /\ log[3].ev = "toolEnabled"

\* The scenes whose selected tool is enabled
EnabledScenes == {v \in DOMAIN views : views[v].activeTool # "none"}

\* C9: on every change of the active document the tool of the scene that had
\* it is disabled, then currentDocumentChanged is emitted, then the tool is
\* enabled on the scene of the new active document; and in every state at
\* most one scene has its tool enabled, which is mSceneWithTool, which is the
\* scene of the active document or none.
ToolFollowsActiveDocument ==
    /\ [](/\ Cardinality(EnabledScenes) <= 1
          /\ EnabledScenes \subseteq {mSceneWithTool}
          /\ mSceneWithTool \in {0, currentMapScene(Here)})
    /\ [][\A k \in 1..Len(log') :
            log'[k].ev = "currentDocumentChanged" =>
              /\ log'[k].enabled = {}
              /\ k = 1 => EnabledScenes = {}
              /\ (k > 1 /\ log'[k - 1].enabled # {})
                    => log'[k - 1].ev = "disableSelectedTool"
              /\ (log'[k].currentIndex # -1 /\ mSelectedTool # "none") =>
                    /\ k < Len(log')
                    /\ log'[k + 1].ev = "toolEnabled"
                    /\ log'[k + 1].id = At(log'[k].tabs, log'[k].currentIndex)
                    /\ log'[k + 1].enabled = {log'[k + 1].id}]_vars

\* A change of the active document has moved the enabled tool from one
\* scene to another.
ToolHasMoved ==
    /\ Len(log) = 3
    /\ log[1].ev = "disableSelectedTool"
    /\ log[2].ev = "currentDocumentChanged"
    /\ log[2].enabled = {}
    /\ log[3].ev = "toolEnabled"
    /\ log[3].id # log[1].id
    /\ mSceneWithTool = log[3].id
    /\ EnabledScenes = {log[3].id}

\* C16: deactivating the tool leaves it idle whatever its state was: the
\* session's object is out of its group and destroyed, the items of the
\* session and of the overlay are off the scene, and no undo entry was made.
\* Every step that ends a session (commit, cancel, deactivation) leaves no
\* item of the session on the scene, no overlay, no object without an owner,
\* and in the group only the objects it had before the session and, after a
\* commit, the one object the new undo entry records.
IdleLeavesNothingBehind ==
    [][/\ (\E k \in 1..Len(log') : log'[k].ev = "disableSelectedTool") =>
            LET g == createTool.mNewMapObjectItem
            IN  /\ createTool'.mNewMapObjectItem = 0
                /\ ~createTool'.mOverlayPolygonItem
                /\ createTool'.detached = 0
                /\ (g # 0 /\ g \in DOMAIN documents') =>
                      /\ documents'[g].objects = pressed.objects
                      /\ documents'[g].undoCount = pressed.undoCount
                /\ (g # 0 /\ g \in DOMAIN views') =>
                      views'[g].items = pressed.items
       /\ (createTool.mNewMapObjectItem # 0
           /\ createTool'.mNewMapObjectItem = 0) =>
            LET g == createTool.mNewMapObjectItem
                n == IF Commits THEN 1 ELSE 0
            IN  /\ ~createTool'.mOverlayPolygonItem
                /\ createTool'.detached = 0
                /\ g \in DOMAIN documents' =>
                      /\ documents'[g].objects = pressed.objects + n
                      /\ documents'[g].undoCount = pressed.undoCount + n
                /\ g \in DOMAIN views' =>
                      views'[g].items = pressed.items + n]_vars

\* The tool bar has selected another tool while a session was open: the
\* tool was deactivated with the session open and is idle.
DeactivationHasMetSession ==
    /\ event.name = "setSelectedTool"
    /\ Len(log) > 0
    /\ log[1].ev = "disableSelectedTool"
    /\ log[1].session
    /\ createTool.mNewMapObjectItem = 0
    /\ documents[log[1].id].objects = 0

\* C17: the tool never has more than one session: no handler fails the
\* assertion of startNewMapObject, a session's group holds exactly one object
\* and its scene exactly one item (and the overlay's) more than before the
\* session, and a press of any button that meets a session is passed to
\* mousePressedWhileCreatingObject and starts nothing.
OneSessionPerTool ==
    /\ [](/\ fault = ""
          /\ createTool.mNewMapObjectItem # 0 =>
                LET g == createTool.mNewMapObjectItem
                IN  /\ documents[g].objects = pressed.objects + 1
                    /\ views[g].items =
                          pressed.items + 1
                          + (IF createTool.mOverlayPolygonItem THEN 1 ELSE 0))
    /\ [][(event'.name = "mousePressed" /\ createTool.mNewMapObjectItem # 0) =>
            /\ UNCHANGED <<createTool, documents, views, pressed>>
            /\ pointer'.hook = "mousePressedWhileCreatingObject"
            /\ pointer'.position = <<>>]_vars

\* A press of the primary button over a visible object group, for which the
\* factory would have made an object, has met a session.
PressHasMetSession ==
    /\ event.name = "mousePressed"
    /\ event.index # 0
    /\ event.key = "LeftButton"
    /\ pointer.e.objectGroup
    /\ pointer.e.created
    /\ createTool.mNewMapObjectItem = event.index

----------------------------------------------------------------------------
(* Properties of snapping                                                  *)

\* C14: the snapping of a press, applied with the same flags and the same
\* subdivision to the coordinates it produced, gives these coordinates again.
SnapIsIdempotent ==
    pointer.tileCoords # <<>> =>
        snapTileCoords(pointer.tileCoords, pointer.snapToGrid,
                       pointer.snapToFineGrid, pointer.e.gridFine)
          = pointer.tileCoords

\* A press was snapped to the fine grid of three subdivisions, to a position
\* that is not a whole tile and not the one the renderer gave.
PressWasSnappedFine ==
    /\ pointer.handler = "mousePressed"
    /\ pointer.tileCoords # <<>>
    /\ pointer.snapToFineGrid
    /\ pointer.e.gridFine = 3
    /\ pointer.tileCoords # pointer.e.tileCoords
    /\ pointer.tileCoords[1] % Unit # 0
    /\ pointer.tileCoords[2] < 0

\* C19: the flags a mouse handler works with are the stored snapToGrid and
\* snapToFineGrid when Control is not held, and the inverted snapToGrid and
\* no fine grid when it is held; in mousePressed, in mouseMoved and in
\* mouseReleased alike, whenever the handler computes them.
ModifierInvertsGridAndDropsFine ==
    (\/ pointer.handler \in {"mousePressed", "mouseReleased"}
     \/ pointer.hook # "") =>
        /\ pointer.snapToGrid = (pointer.e.snapToGrid # pointer.e.control)
        /\ pointer.snapToFineGrid
              = (pointer.e.snapToFineGrid /\ ~pointer.e.control)

\* A release with Control held, with both stored flags set, has been passed
\* to the hook of a session with both flags off.
ReleaseWithModifierWasPassedOn ==
    /\ pointer.handler = "mouseReleased"
    /\ pointer.hook = "mouseReleasedWhileCreatingObject"
    /\ pointer.e.control
    /\ pointer.e.snapToGrid
    /\ pointer.e.snapToFineGrid
    /\ ~pointer.snapToGrid
    /\ ~pointer.snapToFineGrid

\* x is a whole number of 1/n tiles and no farther than half of 1/n from c
Nearest(x, c, n) ==
    /\ (x * n) % Unit = 0
    /\ 2 * (x - c) * n <= Unit
    /\ 2 * (c - x) * n <= Unit

\* C20: the position of the object a press begins is the pixel position of
\* the tile coordinates the renderer gave, after one rule: with the fine flag
\* (the coarse flag set or not) each coordinate is the nearest multiple of
\* 1/gridFine, else with the coarse flag the nearest whole number, else the
\* coordinate itself.
PressAppliesOneRule ==
    pointer.tileCoords # <<>> =>
        /\ \A i \in 1..2 :
              LET c == pointer.e.tileCoords[i]
                  x == pointer.tileCoords[i]
              IN  IF pointer.snapToFineGrid
                  THEN Nearest(x, c, pointer.e.gridFine)
                  ELSE IF pointer.snapToGrid THEN Nearest(x, c, 1)
                  ELSE x = c
        /\ pointer.position
              = <<pointer.tileCoords[1] * tileWidth,
                  pointer.tileCoords[2] * tileHeight>>

\* A press with both flags set was snapped to the fine grid, to a position
\* that is not a whole tile.
PressWithBothFlagsWasSnappedFine ==
    /\ pointer.handler = "mousePressed"
    /\ pointer.tileCoords # <<>>
    /\ pointer.snapToGrid
    /\ pointer.snapToFineGrid
    /\ pointer.e.gridFine = 4
    /\ pointer.tileCoords[1] % Unit # 0
    /\ pointer.position # <<>>

----------------------------------------------------------------------------
(* Properties of the warning of a changed file                             *)

\* C21: the user's ignore hides the warning of that view and changes nothing
\* else; a save leaves the warning of the saved document hidden; a change
\* notification for a document with unsaved changes, whose file has another
\* modification time than the last save, leaves its warning showing, whether
\* or not it was hidden before; and the view of a document that a
\* successful reload has opened is a new view whose warning is hidden.
WarningFollowsPrompt ==
    [][/\ event'.name = "ignoreRequested" =>
            /\ views' = [views EXCEPT
                            ![At(mTabWidget.tabs, event'.index)].warning = FALSE]
            /\ UNCHANGED <<documents, mDocuments, mTabWidget, mUndoGroup,
                           mFileSystemWatcher, mSelectedTool, mSceneWithTool,
                           disk, createTool, fault>>
            /\ log' = <<>>
            /\ reload'.result = "none"
       /\ event'.name = "saveDocument" =>
            /\ At(mDocuments', event'.index) = At(mDocuments, event'.index)
            /\ ~views'[At(mTabWidget'.tabs, event'.index)].warning
       /\ \A i \in 0..(Len(mDocuments) - 1) :
            (/\ event'.name = "fileChanged"
             /\ findDocument(Here, event'.file) = i
             /\ documents[At(mDocuments, i)].modified
             /\ lastModified(disk, event'.file)
                   # documents[At(mDocuments, i)].lastSaved)
            => /\ At(mTabWidget'.tabs, i) = At(mTabWidget.tabs, i)
               /\ views'[At(mTabWidget'.tabs, i)].warning
       /\ reload'.result = "true" =>
            /\ At(mTabWidget'.tabs, reload'.index) \notin DOMAIN views
            /\ ~views'[At(mTabWidget'.tabs, reload'.index)].warning]_vars

\* The user has just ignored the warning of a document that has unsaved
\* changes and whose file still has another modification time than its last
\* save: the warning is hidden and the next notification will show it again.
WarningWasIgnored ==
    /\ event.name = "ignoreRequested"
    /\ LET document == documents[At(mDocuments, event.index)]
       IN  /\ document.modified
           /\ lastModified(disk, document.fileName) # document.lastSaved
    /\ ~views[At(mTabWidget.tabs, event.index)].warning

----------------------------------------------------------------------------
(* Properties of the registry's indices                                    *)

\* C22: in every state, and in every state a slot connected to one of the
\* manager's signals sees, the tabs and the documents have the same length
\* and the view at each tab position is the view made for the document at
\* that position; the registered documents and the views of the tabs are
\* the live ones.
OrdersStayConsistent ==
    /\ mTabWidget.tabs = mDocuments
    /\ Range(mDocuments) = DOMAIN documents
    /\ Range(mTabWidget.tabs) = DOMAIN views
    /\ \A k \in 1..Len(log) : log[k].tabs = log[k].docs

\* The first of three documents has been reloaded: currentDocumentChanged
\* was emitted with four documents registered, and the new document is back
\* at the first position.
ReloadWasObservedWithFour ==
    /\ reload.result = "true"
    /\ reload.index = 0
    /\ Len(mDocuments) = 3
    /\ \E k \in 1..Len(log) :
          /\ log[k].ev = "currentDocumentChanged"
          /\ Len(log[k].docs) = 4
          /\ log[k].docs[4] = mDocuments[1]

\* C23: in every state the undo group holds the stacks of the live
\* documents; when a document is active the group's active stack is that
\* document's stack, and when none is active the group has no active stack:
\* the active stack is never that of another or of a closed document.
ActiveStackIsActiveDocument ==
    /\ mUndoGroup.stacks = DOMAIN documents
    /\ mUndoGroup.active = currentDocument(Here)
    /\ mUndoGroup.active # 0 =>
          /\ mUndoGroup.active \in Range(mDocuments)
          /\ mUndoGroup.active = At(mDocuments, mTabWidget.currentIndex)

\* The active one of three documents has been closed: its stack has left
\* the group and the active stack is that of the document now active.
ActiveWasClosed ==
    /\ event.name = "closeDocumentAt"
    /\ Len(log) > 0
    /\ log[1].ev = "documentAboutToClose"
    /\ log[1].currentIndex = event.index
    /\ Len(mDocuments) = 2
    /\ log[1].id \notin mUndoGroup.stacks
    /\ mUndoGroup.active = At(mDocuments, mTabWidget.currentIndex)

\* C24: in every state, and in every state a slot connected to one of the
\* manager's signals sees, the current index is -1 if no document is
\* registered and otherwise the index of a registered, live document; no
\* handler reads the documents at an index out of range.
ActiveIndexIsInRange ==
    /\ fault # "mDocuments.at(index) out of range"
    /\ mTabWidget.currentIndex = -1 <=> Len(mDocuments) = 0
    /\ mTabWidget.currentIndex >= -1
    /\ mTabWidget.currentIndex < Len(mDocuments)
    /\ Len(mDocuments) > 0 =>
          mDocuments[mTabWidget.currentIndex + 1] \in DOMAIN documents
    /\ \A k \in 1..Len(log) :
          /\ log[k].currentIndex = -1 <=> Len(log[k].docs) = 0
          /\ log[k].currentIndex >= -1
          /\ log[k].currentIndex < Len(log[k].docs)
          /\ log[k].ev = "currentDocumentChanged" =>
                log[k].id = IF log[k].currentIndex = -1 THEN 0
                            ELSE log[k].docs[log[k].currentIndex + 1]

\* The active document, the last of three, has been closed: the document
\* before it is the active one.
LastActiveWasClosed ==
    /\ event.name = "closeDocumentAt"
    /\ Len(log) > 0
    /\ log[1].ev = "documentAboutToClose"
    /\ log[1].currentIndex = 2
    /\ event.index = 2
    /\ Len(mDocuments) = 2
    /\ mTabWidget.currentIndex = 1

----------------------------------------------------------------------------
(* Properties of shutdown                                                  *)

\* C25: closeAllDocuments, called in any state of the registry, returns, and
\* no document is registered when it has returned, so that the destructor's
\* assertion holds; each iteration of its loop closes exactly one document:
\* closeCurrentDocument closes the current document whenever one is left.
CloseAllTerminates ==
    /\ (pc = "closeAllDocuments") ~> (pc = "closed")
    /\ [](pc \in {"closed", "deleted"} =>
            /\ mDocuments = <<>>
            /\ DOMAIN documents = {}
            /\ fault = "")
    /\ [][pc = "closeCurrentDocument" =>
            /\ mTabWidget.currentIndex # -1
            /\ Len(mDocuments') = Len(mDocuments) - 1
            /\ mDocuments'
                  = RemoveAt(mDocuments, mTabWidget.currentIndex)]_vars

\* An iteration of the loop of closeAllDocuments has closed the last
\* document, which was announced as about to close, and the loop is at its
\* test with no document left.
LoopHasClosedTheLast ==
    /\ pc = "closeAllDocuments"
    /\ event.name = "closeCurrentDocument"
    /\ event.index = 0
    /\ Len(log) > 0
    /\ log[1].ev = "documentAboutToClose"
    /\ Len(log[1].docs) = 1
    /\ mDocuments = <<>>
    /\ mTabWidget.currentIndex = -1

============================================================================
